---- MODULE Spec2Model ----
(***************************************************************************)
(* Model of cbagent's XDCR lag collector                                   *)
(* (src/cbagent/collectors/xdcr_lag.py).                                   *)
(*                                                                         *)
(* collect() starts NUM_THREADS threads that all run sample(); sample()    *)
(* loops forever over self.pools and calls _measure_lags(src_pool,         *)
(* dst_pool) for each bucket, appending the result to self.store.  One     *)
(* action per line of _measure_lags / sample / collect that touches shared *)
(* state, so that the threads interleave at the granularity of pool and    *)
(* store calls.                                                            *)
(*                                                                         *)
(* Pool (cbagent.collectors.libstats.pool) and the metric store are not    *)
(* part of the sources; they are modelled from the specification's         *)
(* contract (section 4.1 and section 6).  The code is Python 2: map() is   *)
(* eager, so line 81 starts every thread and line 82 joins every thread.   *)
(***************************************************************************)
EXTENDS Integers, Sequences, FiniteSets, TLC

\* ------------------------------------------------------------------ bounds
\* number of buckets get_buckets() returns
NumBuckets == 2
\* number of threads collect starts under Spec (the class attribute
\* NUM_THREADS, scaled down; SpecCollect uses the real value)
NumWorkers == 2
\* largest fixed pool capacity Init chooses
PoolCap == 2
\* measurement attempts all threads together make before the model stops
\* starting new ones
MaxAttempts == 4
\* last clock tick (milliseconds) of the timed specifications
MaxTime == 200

\* ------------------------------------------------------- program constants
\* XdcrLag.NUM_THREADS
NUM_THREADS == 10

\* sleep(0.05), in clock ticks of one millisecond
SLEEP_TICKS == 50

None == 0
\* the loop variables src_pool and dst_pool before the first iteration
NoPool == <<"none", None>>
\* lags while there is no returned value
NoLags == [xdcr_lag |-> None, key |-> None, by |-> None, measured |-> None]
\* exposed[w] while the marker is not yet visible on the destination
Never == 0 - 1

VARIABLES
    num_threads,   \* self.NUM_THREADS as collect reads it
    pools,         \* self.pools: list of (bucket, src_pool, dst_pool)
    cap,           \* capacity of every Pool (fixed, no growth)
    idle,          \* Pool -> set of idle client handles
    srcStore,      \* bucket -> keys present on the source cluster
    dstStore,      \* bucket -> keys present on the destination cluster
    sink,          \* self.store: the samples appended so far
    usedKeys,      \* marker keys uhex() has produced so far
    budget,        \* measurement attempts the model still lets threads start
    cpc,           \* collect: position ("init", "start", "join", "returned")
    threads,       \* collect: the list of Thread objects (thread ids)
    ci,            \* collect: how many threads the current map() has handled
    pc,            \* thread -> position in sample / _measure_lags
    it,            \* thread -> items the for loop of sample has consumed
    bucket,        \* thread -> loop variable bucket
    src_pool,      \* thread -> loop variable src_pool
    dst_pool,      \* thread -> loop variable dst_pool
    src_client,    \* thread -> local src_client of _measure_lags
    dst_client,    \* thread -> local dst_client of _measure_lags
    key,           \* thread -> local key of _measure_lags
    lags,          \* thread -> value returned by _measure_lags
    ops,           \* history: thread -> calls made by its current measurement
    stats,         \* history: thread -> counters of attempts and outcomes
    errpos,        \* history: thread -> for-loop position of its last error
    now,           \* the clock time() reads, in ticks of one millisecond
    t0,            \* thread -> local t0 of _measure_lags (ticks)
    t1,            \* thread -> local t1 of _measure_lags (ticks)
    wake,          \* thread -> tick at which its sleep(0.05) ends, 0 if awake
    exposed,       \* history: thread -> tick at which the destination exposed
                   \* the marker of its current measurement, Never if not yet
    trail          \* history: what errors left behind (lost clients per pool,
                   \* orphan markers, dropped samples)

shared == <<num_threads, pools, cap, idle, srcStore, dstStore, sink, usedKeys>>
cvars  == <<cpc, threads, ci>>
loopv  == <<it, bucket, src_pool, dst_pool>>
locals == <<src_client, dst_client, key, lags>>
hist   == <<ops, stats, errpos>>
timev  == <<now, t0, t1, wake, exposed>>
vars   == <<shared, budget, cvars, pc, loopv, locals, hist, timev, trail>>

\* ------------------------------------------------------------ construction
Threads == 1..num_threads

SrcPool(b) == <<"src", b>>
DstPool(b) == <<"dst", b>>
PoolIds(bs) == {SrcPool(b) : b \in bs} \cup {DstPool(b) : b \in bs}

\* XdcrLag.__init__: one (bucket, src_pool, dst_pool) per bucket, in order
MakePools(n) ==
    [i \in 1..n |-> [bucket |-> i, src_pool |-> SrcPool(i), dst_pool |-> DstPool(i)]]

\* Pool(...): a pool of c client handles, all idle
NewPool(c) == 1..c

ZeroStats == [attempts |-> 0, returned |-> 0, failed |-> 0,
              appended |-> 0, append_failed |-> 0]

InitWith(n, nb, c, m) ==
    /\ num_threads = n
    /\ pools = MakePools(nb)
    /\ cap = c
    /\ idle = [p \in PoolIds(1..nb) |-> NewPool(c)]
    /\ srcStore = [b \in 1..nb |-> {}]
    /\ dstStore = [b \in 1..nb |-> {}]
    /\ sink = {}
    /\ usedKeys = {}
    /\ budget = m
    /\ cpc = "init"
    /\ threads = <<>>
    /\ ci = 0
    /\ pc = [w \in 1..n |-> "new"]
    /\ it = [w \in 1..n |-> 0]
    /\ bucket = [w \in 1..n |-> None]
    /\ src_pool = [w \in 1..n |-> NoPool]
    /\ dst_pool = [w \in 1..n |-> NoPool]
    /\ src_client = [w \in 1..n |-> None]
    /\ dst_client = [w \in 1..n |-> None]
    /\ key = [w \in 1..n |-> None]
    /\ lags = [w \in 1..n |-> NoLags]
    /\ ops = [w \in 1..n |-> <<>>]
    /\ stats = [w \in 1..n |-> ZeroStats]
    /\ errpos = [w \in 1..n |-> 0]
    /\ now = 0
    /\ t0 = [w \in 1..n |-> 0]
    /\ t1 = [w \in 1..n |-> 0]
    /\ wake = [w \in 1..n |-> 0]
    /\ exposed = [w \in 1..n |-> Never]
    /\ trail = [lost |-> [p \in PoolIds(1..nb) |-> 0], orphans |-> {}, dropped |-> {}]

Init == \E c \in 1..PoolCap : InitWith(NumWorkers, NumBuckets, c, MaxAttempts)

\* ------------------------------------------------- Pool (from the contract)
\* the bucket whose store a client of pool p talks to
BucketOf(p) == p[2]

\* acquire(): the handles an acquire may return; none while the pool is
\* exhausted (capacity is fixed, the caller blocks)
get_client(p) ==
    IF idle[p] = {} THEN {}
    ELSE {CHOOSE c \in idle[p] : \A d \in idle[p] : c <= d}

\* release(client): the idle set after the handle is returned
release_client(p, c) == [idle EXCEPT ![p] = @ \cup {c}]

\* clients of pool p that are checked out
CheckedOut(p) == (1..cap) \ idle[p]

\* ----------------------------------------------------------------- helpers
\* uhex(): uuid4().hex.  A random 122-bit value; the model takes it to be a
\* value no earlier call returned (a collision has negligible probability)
uhex == {Cardinality(usedKeys) + 1}

\* time(): seconds, kept as the number of clock ticks (thousandths)
time == now

\* Millis with t0 and t1 exchanged
Millis_swapped(a, b) == ((a - b) * 1000) \div 1000

\* line 65: (t1 - t0) * 1000, seconds to milliseconds; a and b are in
\* thousandths of a second, so the difference scaled by 1000 is in millionths
\* and the value in milliseconds is one thousandth of that
Millis(a, b) == ((b - a) * 1000) \div 1000

Note(w, e) == [ops EXCEPT ![w] = Append(@, e)]
\* consecutive misses of the polling loop are recorded once
NoteMiss(w) ==
    IF ops[w] # <<>> /\ ops[w][Len(ops[w])] = "get_absent" THEN ops
    ELSE Note(w, "get_absent")

Bump(w, f) == [stats EXCEPT ![w][f] = @ + 1]

\* what an exception raised in thread w leaves behind: the clients its frame
\* had acquired and not released, the marker it had written and not deleted,
\* the sample it had measured and not appended
Left(w) ==
    [lost |-> [p \in DOMAIN trail.lost |->
                 trail.lost[p]
                 + (IF p = src_pool[w] /\ src_client[w] # None THEN 1 ELSE 0)
                 + (IF p = dst_pool[w] /\ dst_client[w] # None THEN 1 ELSE 0)],
     orphans |-> trail.orphans \cup
                 (IF key[w] # None /\ key[w] \in srcStore[bucket[w]]
                  THEN {[key |-> key[w], bucket |-> bucket[w]]} ELSE {}),
     dropped |-> trail.dropped \cup
                 (IF pc[w] = "append" THEN {lags[w]} ELSE {})]

\* Raise without the `except Exception` of line 76: the exception leaves
\* sample and the thread ends
Raise_propagate(w, counter) ==
    /\ pc' = [pc EXCEPT ![w] = "dead"]
    /\ it' = [it EXCEPT ![w] = 0]
    /\ src_client' = [src_client EXCEPT ![w] = None]
    /\ dst_client' = [dst_client EXCEPT ![w] = None]
    /\ key' = [key EXCEPT ![w] = None]
    /\ lags' = [lags EXCEPT ![w] = NoLags]
    /\ ops' = Note(w, "error")
    /\ stats' = Bump(w, counter)
    /\ errpos' = [errpos EXCEPT ![w] = it[w]]
    /\ exposed' = [exposed EXCEPT ![w] = Never]
    /\ trail' = Left(w)
    /\ UNCHANGED <<bucket, src_pool, dst_pool, t0, t1, wake>>

\* sample, lines 76-77: an exception unwinds
\* _measure_lags (its locals are lost, nothing is released), leaves the for
\* loop, is logged, and `while True` starts the for loop over from the first
\* bucket
Raise(w, counter) ==
    /\ pc' = [pc EXCEPT ![w] = "for"]
    /\ it' = [it EXCEPT ![w] = 0]
    /\ src_client' = [src_client EXCEPT ![w] = None]
    /\ dst_client' = [dst_client EXCEPT ![w] = None]
    /\ key' = [key EXCEPT ![w] = None]
    /\ lags' = [lags EXCEPT ![w] = NoLags]
    /\ ops' = Note(w, "error")
    /\ stats' = Bump(w, counter)
    /\ errpos' = [errpos EXCEPT ![w] = it[w]]
    /\ exposed' = [exposed EXCEPT ![w] = Never]
    /\ trail' = Left(w)
    /\ UNCHANGED <<bucket, src_pool, dst_pool, t0, t1, wake>>

\* ------------------------------------------------------------------ sample
\* line 70: the for loop takes the next (bucket, src_pool, dst_pool); when
\* the list is exhausted `while True` starts it again
NextPos(i) == IF i < Len(pools) THEN i + 1 ELSE 1

for_next(w) ==
    /\ pc[w] = "for"
    /\ budget > 0
    /\ budget' = budget - 1
    /\ LET i == NextPos(it[w]) IN
        /\ it' = [it EXCEPT ![w] = i]
        /\ bucket' = [bucket EXCEPT ![w] = pools[i].bucket]
        /\ src_pool' = [src_pool EXCEPT ![w] = pools[i].src_pool]
        /\ dst_pool' = [dst_pool EXCEPT ![w] = pools[i].dst_pool]
    /\ pc' = [pc EXCEPT ![w] = "get_src"]
    /\ ops' = [ops EXCEPT ![w] = <<>>]
    /\ stats' = Bump(w, "attempts")
    /\ t0' = [t0 EXCEPT ![w] = 0]
    /\ t1' = [t1 EXCEPT ![w] = 0]
    /\ exposed' = [exposed EXCEPT ![w] = Never]
    /\ UNCHANGED <<shared, cvars, locals, errpos, now, wake, trail>>

\* ----------------------------------------------------------- _measure_lags
\* line 45: src_client = src_pool.get_client()
get_src(w) ==
    /\ pc[w] = "get_src"
    /\ \E c \in get_client(src_pool[w]) :
        /\ idle' = [idle EXCEPT ![src_pool[w]] = @ \ {c}]
        /\ src_client' = [src_client EXCEPT ![w] = c]
    /\ pc' = [pc EXCEPT ![w] = "get_dst"]
    /\ ops' = Note(w, "acquire_src")
    /\ UNCHANGED <<num_threads, pools, cap, srcStore, dstStore, sink, usedKeys,
                   cvars, budget, loopv, dst_client, key, lags, stats, errpos, timev, trail>>

\* line 45 raises
get_src_fail(w) ==
    /\ pc[w] = "get_src"
    /\ Raise(w, "failed")
    /\ UNCHANGED <<shared, cvars, budget, now>>

\* lines 46 and 48: dst_client = dst_pool.get_client(); key = uhex()
get_dst(w) ==
    /\ pc[w] = "get_dst"
    /\ \E c \in get_client(dst_pool[w]) :
        /\ idle' = [idle EXCEPT ![dst_pool[w]] = @ \ {c}]
        /\ dst_client' = [dst_client EXCEPT ![w] = c]
    /\ \E k \in uhex :
        /\ key' = [key EXCEPT ![w] = k]
        /\ usedKeys' = usedKeys \cup {k}
    /\ pc' = [pc EXCEPT ![w] = "set"]
    /\ ops' = Note(w, "acquire_dst")
    /\ UNCHANGED <<num_threads, pools, cap, srcStore, dstStore, sink,
                   cvars, budget, loopv, src_client, lags, stats, errpos, timev, trail>>

\* get_dst_fail with the source client released before the exception leaves
get_dst_fail_release(w) ==
    /\ pc[w] = "get_dst"
    /\ idle' = release_client(src_pool[w], src_client[w])
    /\ Raise(w, "failed")
    /\ UNCHANGED <<num_threads, pools, cap, srcStore, dstStore, sink, usedKeys,
                   cvars, budget, now>>

\* line 46 raises
get_dst_fail(w) ==
    /\ pc[w] = "get_dst"
    /\ Raise(w, "failed")
    /\ UNCHANGED <<shared, cvars, budget, now>>

\* set with the source client released too early (line 62 moved up)
set_release_early(w) ==
    /\ pc[w] = "set"
    /\ srcStore' = [srcStore EXCEPT ![BucketOf(src_pool[w])] = @ \cup {key[w]}]
    /\ idle' = release_client(src_pool[w], src_client[w])
    /\ pc' = [pc EXCEPT ![w] = "get"]
    /\ ops' = Note(w, "set")
    /\ t0' = [t0 EXCEPT ![w] = time]
    /\ UNCHANGED <<num_threads, pools, cap, dstStore, sink, usedKeys,
                   cvars, budget, loopv, locals, stats, errpos,
                   now, t1, wake, exposed, trail>>

\* lines 50-51: src_client.set(key, key); t0 = time()
set(w) ==
    /\ pc[w] = "set"
    /\ srcStore' = [srcStore EXCEPT ![BucketOf(src_pool[w])] = @ \cup {key[w]}]
    /\ pc' = [pc EXCEPT ![w] = "get"]
    /\ ops' = Note(w, "set")
    /\ t0' = [t0 EXCEPT ![w] = time]
    /\ UNCHANGED <<num_threads, pools, cap, idle, dstStore, sink, usedKeys,
                   cvars, budget, loopv, locals, stats, errpos,
                   now, t1, wake, exposed, trail>>

\* line 50 raises
set_fail(w) ==
    /\ pc[w] = "set"
    /\ Raise(w, "failed")
    /\ UNCHANGED <<shared, cvars, budget, now>>

\* get_value with the test of line 54 lost: the value is read and the loop
\* sleeps and polls again
get_value_stale(w) ==
    /\ pc[w] = "get"
    /\ key[w] \in dstStore[BucketOf(dst_pool[w])]
    /\ pc' = [pc EXCEPT ![w] = "sleep"]
    /\ ops' = NoteMiss(w)
    /\ UNCHANGED <<shared, cvars, budget, loopv, locals, stats, errpos,
                   timev, trail>>

\* lines 53-55, 58: r = dst_client.get(key); r.value is set: leave the loop
get_value(w) ==
    /\ pc[w] = "get"
    /\ key[w] \in dstStore[BucketOf(dst_pool[w])]
    /\ pc' = [pc EXCEPT ![w] = "delete"]
    /\ ops' = Note(w, "get_value")
    /\ t1' = [t1 EXCEPT ![w] = time]
    /\ UNCHANGED <<shared, cvars, budget, loopv, locals, stats, errpos,
                   now, t0, wake, exposed, trail>>

\* get_absent without the test of line 54: the loop is left on a miss
get_absent_break(w) ==
    /\ pc[w] = "get"
    /\ key[w] \notin dstStore[BucketOf(dst_pool[w])]
    /\ pc' = [pc EXCEPT ![w] = "delete"]
    /\ ops' = NoteMiss(w)
    /\ t1' = [t1 EXCEPT ![w] = time]
    /\ UNCHANGED <<shared, cvars, budget, loopv, locals, stats, errpos,
                   now, t0, wake, exposed, trail>>

\* get_absent that gives up on a miss: the measurement ends without a value
get_absent_giveup(w) ==
    /\ pc[w] = "get"
    /\ key[w] \notin dstStore[BucketOf(dst_pool[w])]
    /\ pc' = [pc EXCEPT ![w] = "rel_src"]
    /\ ops' = NoteMiss(w)
    /\ UNCHANGED <<shared, cvars, budget, loopv, locals, stats, errpos,
                   timev, trail>>

\* get_absent with a polling interval of twice the length
get_absent_slow(w) ==
    /\ pc[w] = "get"
    /\ key[w] \notin dstStore[BucketOf(dst_pool[w])]
    /\ pc' = [pc EXCEPT ![w] = "sleep"]
    /\ ops' = NoteMiss(w)
    /\ wake' = [wake EXCEPT ![w] = time + 2 * SLEEP_TICKS]
    /\ UNCHANGED <<shared, cvars, budget, loopv, locals, stats, errpos,
                   now, t0, t1, exposed, trail>>

\* lines 53-57: r.value is empty (quiet=True): sleep(0.05) and poll again
get_absent(w) ==
    /\ pc[w] = "get"
    /\ key[w] \notin dstStore[BucketOf(dst_pool[w])]
    /\ pc' = [pc EXCEPT ![w] = "sleep"]
    /\ ops' = NoteMiss(w)
    /\ wake' = [wake EXCEPT ![w] = time + SLEEP_TICKS]
    /\ UNCHANGED <<shared, cvars, budget, loopv, locals, stats, errpos,
                   now, t0, t1, exposed, trail>>

\* get_fail with the marker deleted before the exception leaves
get_fail_cleanup(w) ==
    /\ pc[w] = "get"
    /\ srcStore' = [srcStore EXCEPT ![BucketOf(src_pool[w])] = @ \ {key[w]}]
    /\ Raise(w, "failed")
    /\ UNCHANGED <<num_threads, pools, cap, idle, dstStore, sink, usedKeys,
                   cvars, budget, now>>

\* line 53 raises
get_fail(w) ==
    /\ pc[w] = "get"
    /\ Raise(w, "failed")
    /\ UNCHANGED <<shared, cvars, budget, now>>

\* line 57: sleep(0.05) returns
sleep(w) ==
    /\ pc[w] = "sleep"
    /\ pc' = [pc EXCEPT ![w] = "get"]
    /\ wake' = [wake EXCEPT ![w] = 0]
    /\ UNCHANGED <<shared, cvars, budget, loopv, locals, hist,
                   now, t0, t1, exposed, trail>>

\* delete without line 60: the marker is left behind
delete_skip(w) ==
    /\ pc[w] = "delete"
    /\ pc' = [pc EXCEPT ![w] = "rel_src"]
    /\ ops' = Note(w, "delete")
    /\ UNCHANGED <<shared, cvars, budget, loopv, locals, stats, errpos, timev, trail>>

\* delete that removes every key of the bucket, not the marker alone
delete_flush(w) ==
    /\ pc[w] = "delete"
    /\ srcStore' = [srcStore EXCEPT ![BucketOf(src_pool[w])] = {}]
    /\ pc' = [pc EXCEPT ![w] = "rel_src"]
    /\ ops' = Note(w, "delete")
    /\ UNCHANGED <<num_threads, pools, cap, idle, dstStore, sink, usedKeys,
                   cvars, budget, loopv, locals, stats, errpos, timev, trail>>

\* line 60: src_client.delete(key)
delete(w) ==
    /\ pc[w] = "delete"
    /\ srcStore' = [srcStore EXCEPT ![BucketOf(src_pool[w])] = @ \ {key[w]}]
    /\ pc' = [pc EXCEPT ![w] = "rel_src"]
    /\ ops' = Note(w, "delete")
    /\ UNCHANGED <<num_threads, pools, cap, idle, dstStore, sink, usedKeys,
                   cvars, budget, loopv, locals, stats, errpos, timev, trail>>

\* line 60 raises
delete_fail(w) ==
    /\ pc[w] = "delete"
    /\ Raise(w, "failed")
    /\ UNCHANGED <<shared, cvars, budget, now>>

\* release_src without line 62: the source client is kept
release_src_keep(w) ==
    /\ pc[w] = "rel_src"
    /\ pc' = [pc EXCEPT ![w] = "rel_dst"]
    /\ ops' = Note(w, "release_src")
    /\ UNCHANGED <<shared, cvars, budget, loopv, locals, stats, errpos,
                   timev, trail>>

\* line 62: src_pool.release_client(src_client)
release_src(w) ==
    /\ pc[w] = "rel_src"
    /\ idle' = release_client(src_pool[w], src_client[w])
    /\ pc' = [pc EXCEPT ![w] = "rel_dst"]
    /\ ops' = Note(w, "release_src")
    /\ UNCHANGED <<num_threads, pools, cap, srcStore, dstStore, sink, usedKeys,
                   cvars, budget, loopv, locals, stats, errpos, timev, trail>>

\* lines 63 and 65: dst_pool.release_client(dst_client); return the sample
\* (the frame of _measure_lags and its locals are gone)
release_dst(w) ==
    /\ pc[w] = "rel_dst"
    /\ idle' = release_client(dst_pool[w], dst_client[w])
    /\ lags' = [lags EXCEPT ![w] = [xdcr_lag |-> Millis(t0[w], t1[w]),
                                       key |-> key[w], by |-> w,
                                       measured |-> BucketOf(src_pool[w])]]
    /\ src_client' = [src_client EXCEPT ![w] = None]
    /\ dst_client' = [dst_client EXCEPT ![w] = None]
    /\ key' = [key EXCEPT ![w] = None]
    /\ pc' = [pc EXCEPT ![w] = "append"]
    /\ ops' = [ops EXCEPT ![w] = Append(Append(@, "release_dst"), "return")]
    /\ stats' = Bump(w, "returned")
    /\ UNCHANGED <<num_threads, pools, cap, srcStore, dstStore, sink, usedKeys,
                   cvars, budget, loopv, errpos, timev, trail>>

\* ------------------------------------------------------------------ sample
\* append that loses the sample
append_drop(w) ==
    /\ pc[w] = "append"
    /\ lags' = [lags EXCEPT ![w] = NoLags]
    /\ pc' = [pc EXCEPT ![w] = "for"]
    /\ stats' = Bump(w, "appended")
    /\ errpos' = [errpos EXCEPT ![w] = 0]
    /\ UNCHANGED <<shared, cvars, budget, loopv, src_client, dst_client, key, ops, timev, trail>>

\* lines 72-75: self.store.append(lags, cluster=..., bucket=bucket,
\* collector=self.COLLECTOR); then the for loop goes on
append(w) ==
    /\ pc[w] = "append"
    /\ sink' = sink \cup {[lags |-> lags[w], bucket |-> bucket[w],
                           collector |-> "xdcr_lag"]}
    /\ lags' = [lags EXCEPT ![w] = NoLags]
    /\ pc' = [pc EXCEPT ![w] = "for"]
    /\ stats' = Bump(w, "appended")
    /\ errpos' = [errpos EXCEPT ![w] = 0]
    /\ UNCHANGED <<num_threads, pools, cap, idle, srcStore, dstStore, usedKeys,
                   cvars, budget, loopv, src_client, dst_client, key, ops, timev, trail>>

\* append_fail with a retry in the handler that stores the sample
append_fail_retry(w) ==
    /\ pc[w] = "append"
    /\ sink' = sink \cup {[lags |-> lags[w], bucket |-> bucket[w],
                           collector |-> "xdcr_lag"]}
    /\ Raise(w, "append_failed")
    /\ UNCHANGED <<num_threads, pools, cap, idle, srcStore, dstStore, usedKeys,
                   cvars, budget, now>>

\* lines 72-75 raise
append_fail(w) ==
    /\ pc[w] = "append"
    /\ Raise(w, "append_failed")
    /\ UNCHANGED <<shared, cvars, budget, now>>

\* ------------------------------------------------------------- environment
\* XDCR: a key written on the source becomes visible on the destination
xdcr_replicate(b) ==
    /\ \E k \in srcStore[b] \ dstStore[b] :
        /\ dstStore' = [dstStore EXCEPT ![b] = @ \cup {k}]
        /\ exposed' = [w \in DOMAIN exposed |->
                          IF key[w] = k THEN now ELSE exposed[w]]
    /\ UNCHANGED <<num_threads, pools, cap, idle, srcStore, sink, usedKeys,
                   cvars, budget, pc, loopv, locals, hist,
                   now, t0, t1, wake, trail>>

\* time passes
tick ==
    /\ now < MaxTime
    /\ now' = now + 1
    /\ UNCHANGED <<shared, budget, cvars, pc, loopv, locals, hist,
                   t0, t1, wake, exposed, trail>>

\* ----------------------------------------------------------------- collect
is_alive(t) == pc[t] \notin {"new", "dead"}

\* make_threads with one thread too few
make_threads_short == [i \in 1..(num_threads - 1) |-> i]

\* line 80: [Thread(target=self.sample) for _ in range(self.NUM_THREADS)]
make_threads == [i \in 1..num_threads |-> i]

\* join that does not wait for the thread
join_returns_nowait(t) == TRUE

\* t.join() returns once the thread has ended
join_returns(t) == ~is_alive(t)

\* lines 80-82, one thread per step of each map()
collect ==
    /\ cpc \in {"init", "start", "join"}
    /\ CASE cpc = "init" ->
              /\ threads' = make_threads
              /\ cpc' = "start"
              /\ ci' = 0
              /\ pc' = pc
         [] cpc = "start" /\ ci < Len(threads) ->
              /\ pc' = [pc EXCEPT ![threads[ci + 1]] = "for"]
              /\ ci' = ci + 1
              /\ UNCHANGED <<cpc, threads>>
         [] cpc = "start" /\ ci >= Len(threads) ->
              /\ cpc' = "join"
              /\ ci' = 0
              /\ UNCHANGED <<pc, threads>>
         [] cpc = "join" /\ ci < Len(threads) ->
              /\ join_returns(threads[ci + 1])
              /\ ci' = ci + 1
              /\ UNCHANGED <<pc, cpc, threads>>
         [] cpc = "join" /\ ci >= Len(threads) ->
              /\ cpc' = "returned"
              /\ UNCHANGED <<pc, ci, threads>>
    /\ UNCHANGED <<shared, budget, loopv, locals, hist, timev, trail>>

\* ----------------------------------------------------------- specification
Next ==
    \/ collect
    \/ \E b \in DOMAIN srcStore : xdcr_replicate(b)
    \/ \E w \in Threads : for_next(w)
    \/ \E w \in Threads : get_src(w)
    \/ \E w \in Threads : get_src_fail(w)
    \/ \E w \in Threads : get_dst(w)
    \/ \E w \in Threads : get_dst_fail(w)
    \/ \E w \in Threads : set(w)
    \/ \E w \in Threads : set_fail(w)
    \/ \E w \in Threads : get_value(w)
    \/ \E w \in Threads : get_absent(w)
    \/ \E w \in Threads : get_fail(w)
    \/ \E w \in Threads : sleep(w)
    \/ \E w \in Threads : delete(w)
    \/ \E w \in Threads : delete_fail(w)
    \/ \E w \in Threads : release_src(w)
    \/ \E w \in Threads : release_dst(w)
    \/ \E w \in Threads : append(w)
    \/ \E w \in Threads : append_fail(w)

Spec == Init /\ [][Next]_vars

\* ------------------------------------------------------ derived predicates
\* the thread is inside _measure_lags
InFlight(w) ==
    pc[w] \in {"get_src", "get_dst", "set", "get", "sleep", "delete",
               "rel_src", "rel_dst"}

\* the handles the measurement of thread w has acquired from pool p and not
\* yet released
HeldSrc(w, p) ==
    IF pc[w] \in {"get_dst", "set", "get", "sleep", "delete", "rel_src"}
       /\ src_pool[w] = p
    THEN {src_client[w]} ELSE {}
HeldDst(w, p) ==
    IF pc[w] \in {"set", "get", "sleep", "delete", "rel_src", "rel_dst"}
       /\ dst_pool[w] = p
    THEN {dst_client[w]} ELSE {}
HeldBy(w, p) == HeldSrc(w, p) \cup HeldDst(w, p)
Holders(p) == {w \in Threads : HeldBy(w, p) # {}}

Last(q) == IF q = <<>> THEN "none" ELSE q[Len(q)]
Count(q, e) == Cardinality({i \in 1..Len(q) : q[i] = e})
IsPrefix(q, r) == Len(q) <= Len(r) /\ \A i \in 1..Len(q) : q[i] = r[i]

\* the measurement of thread w has returned its sample
Returned(w) == Count(ops[w], "return") = 1

\* ------------------------------------------------------------------ claims

\* C1 (as claimed): every client a measurement acquired is released to its
\* pool on every exit path, so the clients checked out of a pool are exactly
\* those held by measurements still in flight.
C1_ResourceBalance ==
    \A p \in DOMAIN idle :
        CheckedOut(p) = UNION {HeldBy(w, p) : w \in Threads}

\* C2: a measurement writes at most one marker key, exactly one when it
\* returns a sample, and the marker of every returned sample is absent from
\* the source store, whatever the other threads do.
C2_Cleanup ==
    /\ \A w \in Threads :
        /\ Count(ops[w], "set") <= 1
        /\ Returned(w) => Count(ops[w], "set") = 1
        /\ pc[w] = "append" => lags[w].key \notin srcStore[lags[w].measured]
    /\ \A s \in sink : s.lags.key \notin srcStore[s.lags.measured]

\* a sample was returned while another thread's marker is in the same store
C2_Witness ==
    \E w \in Threads :
        /\ pc[w] = "append"
        /\ srcStore[lags[w].measured] # {}
        /\ sink # {}

\* C3: the calls of one measurement follow the order acquire source, acquire
\* destination, set, get (absent any number of times, then the value),
\* delete, release source, release destination, return; an error may end it
\* after any step; set, get and delete are only issued while both clients
\* are checked out by this measurement.
Canon == <<"acquire_src", "acquire_dst", "set", "get_absent", "get_value",
           "delete", "release_src", "release_dst", "return">>
CanonDirect == <<"acquire_src", "acquire_dst", "set", "get_value",
                 "delete", "release_src", "release_dst", "return">>
Body(q) == IF Last(q) = "error" THEN SubSeq(q, 1, Len(q) - 1) ELSE q

C3_StepOrder ==
    \A w \in Threads :
        /\ IsPrefix(Body(ops[w]), Canon) \/ IsPrefix(Body(ops[w]), CanonDirect)
        /\ pc[w] = "delete" => Last(ops[w]) = "get_value"
        /\ pc[w] \in {"get", "sleep"} => Last(ops[w]) \in {"set", "get_absent"}
        /\ pc[w] \in {"set", "get", "sleep", "delete"} =>
            /\ src_client[w] \in CheckedOut(src_pool[w])
            /\ dst_client[w] \in CheckedOut(dst_pool[w])
            /\ src_client[w] # None
            /\ dst_client[w] # None

\* a measurement that polled, missed, polled again and ran to its return
C3_Witness == \E w \in Threads : ops[w] = Canon

\* C4: a started thread never ends: it is never dead, collect never sees it
\* finish, and whenever its attempt is over (sample appended, measurement
\* error or append error) it is back at the head of the for loop, ready to
\* start the next measurement.
Finished(w) ==
    stats[w].attempts =
        stats[w].appended + stats[w].append_failed + stats[w].failed

C4_NeverTerminates ==
    \A w \in Threads :
        /\ pc[w] # "dead"
        /\ pc[w] # "new" => is_alive(w)
        /\ (pc[w] # "new" /\ Finished(w)) =>
            /\ pc[w] = "for"
            /\ budget > 0 => ENABLED for_next(w)
        /\ Last(ops[w]) = "error" => pc[w] = "for"

\* a thread that survived a measurement error and an append error and has
\* started yet another measurement
C4_Witness ==
    \E w \in Threads :
        /\ stats[w].failed >= 1
        /\ stats[w].append_failed >= 1
        /\ InFlight(w)

\* C5 (as claimed): after an error while handling the bucket at position i,
\* the thread's next attempt is for the bucket at position i + 1 (wrapping).
C5_NextBucketAfterError ==
    \A w \in Threads :
        (pc[w] \notin {"new", "for", "dead"} /\ errpos[w] # 0) =>
            it[w] = NextPos(errpos[w])

\* C6: per thread, every returned measurement leads to exactly one append
\* call, which adds one sample tagged with the bucket that was measured
\* unless the sink itself fails; failed measurements add none; so with one
\* failed measurement and no sink failure, N finished attempts leave N - 1
\* samples.
SamplesOf(w) == {s \in sink : s.lags.by = w}

C6_SampleAccounting ==
    \A w \in Threads :
        /\ stats[w].returned = stats[w].appended + stats[w].append_failed
                               + (IF pc[w] = "append" THEN 1 ELSE 0)
        /\ stats[w].attempts = stats[w].returned + stats[w].failed
                               + (IF InFlight(w) THEN 1 ELSE 0)
        /\ Cardinality(SamplesOf(w)) = stats[w].appended
        /\ \A s \in SamplesOf(w) : s.bucket = s.lags.measured
        /\ (stats[w].failed = 1 /\ stats[w].append_failed = 0 /\ Finished(w)) =>
            Cardinality(SamplesOf(w)) = stats[w].attempts - 1

\* three attempts of one thread, one of them failed, two samples
C6_Witness ==
    \E w \in Threads :
        /\ stats[w].attempts = 3
        /\ stats[w].failed = 1
        /\ stats[w].append_failed = 0
        /\ Finished(w)
        /\ Cardinality(SamplesOf(w)) = 2

\* C8: a pool of fixed capacity never has more measurements holding one of
\* its clients than its capacity, no client is held by two measurements, and
\* with capacity 1 a second measurement on the bucket holds no client while
\* the first one still holds it.
C8_PoolSerialization ==
    \A p \in DOMAIN idle :
        /\ Cardinality(Holders(p)) <= cap
        /\ Cardinality(CheckedOut(p)) <= cap
        /\ \A w1, w2 \in Threads : w1 # w2 => HeldBy(w1, p) \cap HeldBy(w2, p) = {}
        /\ \A w \in Threads : HeldBy(w, p) \cap idle[p] = {}
        /\ cap = 1 => Cardinality(Holders(p)) <= 1

\* capacity 1: one measurement holds the source client of bucket 1, the
\* other is at its acquire and cannot proceed
C8_Witness ==
    /\ cap = 1
    /\ \E w1, w2 \in Threads :
        /\ w1 # w2
        /\ pc[w1] \in {"get", "sleep"}
        /\ pc[w2] = "get_src"
        /\ src_pool[w1] = src_pool[w2]
        /\ ~ENABLED get_src(w2)

\* C10: collect has started every thread before its first join, and it does
\* not return: it stays in the join of a thread that is still running.
C10_CollectBlocks ==
    /\ cpc # "returned"
    /\ cpc = "join" =>
        /\ ci = 0
        /\ Len(threads) = num_threads
        /\ \A i \in 1..Len(threads) : is_alive(threads[i])

\* collect is still in its first join after the threads used up all attempts
C10_Witness ==
    /\ cpc = "join"
    /\ budget = 0
    /\ \A w \in Threads : pc[w] = "for" /\ stats[w].attempts >= 1

\* ------------------------------------------------ collect with NUM_THREADS
\* The collector as configured: NUM_THREADS threads, one bucket, pools that
\* hold a client for every thread, one measurement per thread, no faults and
\* no replication yet.  The threads run up to their first destination get
\* in thread order, two neighbours at a time; these are schedules of the
\* program, few enough for the real thread count.
InitCollect == InitWith(NUM_THREADS, 1, NUM_THREADS, NUM_THREADS)

Turn(w) == \A v \in 1..(w - 2) : pc[v] = "get"

NextCollect ==
    \/ collect
    \/ \E w \in Threads : Turn(w) /\ for_next(w)
    \/ \E w \in Threads : Turn(w) /\ get_src(w)
    \/ \E w \in Threads : Turn(w) /\ get_dst(w)
    \/ \E w \in Threads : Turn(w) /\ set(w)

SpecCollect == InitCollect /\ [][NextCollect]_vars

\* C9: collect creates and starts exactly NUM_THREADS threads, all of them
\* iterate over the one list self.pools, never more than NUM_THREADS
\* measurements are in flight on a bucket, and in-flight measurements have
\* marker keys of their own.
InFlightOn(b) == {w \in Threads : InFlight(w) /\ bucket[w] = b}

C9_WorkerCount ==
    /\ num_threads = NUM_THREADS
    /\ cpc # "init" =>
        /\ Len(threads) = NUM_THREADS
        /\ \A i, j \in 1..Len(threads) : i # j => threads[i] # threads[j]
    /\ cpc = "start" => \A i \in 1..Len(threads) : is_alive(threads[i]) <=> i <= ci
    /\ cpc = "join" => \A i \in 1..Len(threads) : is_alive(threads[i])
    /\ Cardinality({w \in Threads : is_alive(w)}) <= NUM_THREADS
    /\ \A w \in Threads : InFlight(w) =>
        /\ bucket[w] = pools[it[w]].bucket
        /\ src_pool[w] = pools[it[w]].src_pool
        /\ dst_pool[w] = pools[it[w]].dst_pool
    /\ \A b \in DOMAIN srcStore : Cardinality(InFlightOn(b)) <= NUM_THREADS
    /\ \A w1, w2 \in Threads :
        (w1 # w2 /\ key[w1] # None /\ key[w2] # None) => key[w1] # key[w2]

\* NUM_THREADS measurements in flight on bucket 1 at once, each past its
\* source set, with NUM_THREADS different markers in the source store
C9_Witness ==
    /\ Cardinality(InFlightOn(1)) = NUM_THREADS
    /\ \A w \in Threads : pc[w] = "get"
    /\ Cardinality({key[w] : w \in Threads}) = NUM_THREADS
    /\ Cardinality(srcStore[1]) = NUM_THREADS

\* --------------------------------------------------------- failure isolation
\* clients of pool p that are checked out and held by no measurement
Leaked(p) == CheckedOut(p) \ UNION {HeldBy(w, p) : w \in Threads}

\* the pool whose get_client() thread w is calling
WaitsFor(w) == IF pc[w] = "get_src" THEN src_pool[w] ELSE dst_pool[w]

\* thread w is inside a get_client() that cannot return
Blocked(w) ==
    /\ pc[w] \in {"get_src", "get_dst"}
    /\ get_client(WaitsFor(w)) = {}

\* thread w has raised no error so far
Faultless(w) == stats[w].failed = 0 /\ stats[w].append_failed = 0

\* the step is an exception raised and caught in thread w
ErrorStep(w) ==
    stats'[w].failed + stats'[w].append_failed
        > stats[w].failed + stats[w].append_failed

\* the first two parts of C11: an error of thread w ends no thread and leaves
\* the position, loop variables and locals of every other thread as they were
ErrorStepIsLocal ==
    [][\A w \in Threads : ErrorStep(w) =>
          /\ \A v \in Threads : pc'[v] # "dead"
          /\ \A v \in Threads \ {w} :
                /\ pc'[v] = pc[v]
                /\ it'[v] = it[v]
                /\ bucket'[v] = bucket[v]
                /\ src_pool'[v] = src_pool[v]
                /\ dst_pool'[v] = dst_pool[v]
                /\ src_client'[v] = src_client[v]
                /\ dst_client'[v] = dst_client[v]
                /\ key'[v] = key[v]
                /\ lags'[v] = lags[v]]_vars

\* C11 (as claimed): an error in one worker does not prevent any other worker
\* from continuing to complete measurements: a worker that raised no error
\* itself and waits in get_client() waits for a client that a measurement in
\* flight holds and will release, never for clients that are all lost.
C11_FailureIsolation ==
    \A v \in Threads :
        (Faultless(v) /\ Blocked(v)) => Holders(WaitsFor(v)) # {}

\* ------------------------------------------------------------------ timing
\* One thread measuring every bucket once, on a clock of millisecond ticks
\* that never goes backwards.  Store and pool calls take no time: the clock
\* advances only while the thread sleeps, and sleep(0.05) returns at the
\* tick it was set for.  The destination may expose a marker at any tick.
InitTime == InitWith(1, NumBuckets, 1, NumBuckets)

\* thread w is in sleep(0.05) and its interval has not elapsed
Asleep(w) == pc[w] = "sleep" /\ now < wake[w]

NextTime ==
    \/ collect
    \/ \E b \in DOMAIN srcStore : xdcr_replicate(b)
    \/ (\A w \in Threads : Asleep(w)) /\ tick
    \/ \E w \in Threads : for_next(w)
    \/ \E w \in Threads : get_src(w)
    \/ \E w \in Threads : get_dst(w)
    \/ \E w \in Threads : set(w)
    \/ \E w \in Threads : get_value(w)
    \/ \E w \in Threads : get_absent(w)
    \/ \E w \in Threads : ~Asleep(w) /\ sleep(w)
    \/ \E w \in Threads : delete(w)
    \/ \E w \in Threads : release_src(w)
    \/ \E w \in Threads : release_dst(w)
    \/ \E w \in Threads : append(w)

SpecTime == InitTime /\ [][NextTime]_vars

\* C12: every measurement that returns a sample reports the latency
\* (t1 - t0) * 1000 and it is not negative, t0 being read with the source set
\* and t1 with the destination get that returned the value, on a clock that
\* never goes backwards; so is the latency of every sample in the sink.
C12_NonNegativeLatency ==
    /\ \A w \in Threads : pc[w] = "append" =>
        /\ lags[w].xdcr_lag = t1[w] - t0[w]
        /\ lags[w].xdcr_lag >= 0
        /\ t0[w] <= t1[w] /\ t1[w] <= now
    /\ \A s \in sink : s.lags.xdcr_lag >= 0

\* the measurement of the last bucket returned a latency above zero after a
\* sample of another bucket was appended
C12_Witness ==
    \E w \in Threads :
        /\ pc[w] = "append"
        /\ bucket[w] = Len(pools)
        /\ lags[w].xdcr_lag > 0
        /\ \E s \in sink : s.bucket # bucket[w] /\ s.lags.xdcr_lag > 0

\* replication delay of the marker of thread w: from the source write to the
\* tick at which the destination exposed it
Delay(w) == exposed[w] - t0[w]

\* C13: when the destination first exposes the marker D ms after the write,
\* the reported latency L satisfies D <= L <= D + 50; for D = 120 it lies in
\* [120, 170].
C13_PollingGranularity ==
    \A w \in Threads : pc[w] = "append" =>
        /\ exposed[w] # Never
        /\ Delay(w) <= lags[w].xdcr_lag
        /\ lags[w].xdcr_lag <= Delay(w) + 50
        /\ Delay(w) = 120 => lags[w].xdcr_lag \in 120..170

\* a marker exposed 120 ms after the write, found by the fourth get
C13_Witness ==
    \E w \in Threads :
        /\ pc[w] = "append"
        /\ Delay(w) = 120
        /\ lags[w].xdcr_lag = 150

\* ------------------------------------------------------------------ polling
\* thread w is in the polling loop of lines 52-57
Polling(w) == pc[w] \in {"get", "sleep"}

\* the destination exposes the marker of thread w
Exposed(w) == key[w] \in dstStore[BucketOf(dst_pool[w])]

\* C14: a get that finds the marker absent is not an error and does not end
\* the measurement; a polling thread stays in the loop, holding its source
\* and destination client, until a get returns the value or raises.  While
\* the destination does not expose the marker the measurement does not
\* return, and only a store error ends it.
C14_UnboundedPolling ==
    [][\A w \in Threads : Polling(w) =>
          \/ /\ pc'[w] \in {"get", "sleep"}
             /\ ~ErrorStep(w)
             /\ key'[w] = key[w]
             /\ src_client'[w] = src_client[w]
             /\ dst_client'[w] = dst_client[w]
             /\ src_client[w] \notin idle'[src_pool[w]]
             /\ dst_client[w] \notin idle'[dst_pool[w]]
          \/ /\ pc[w] = "get" /\ pc'[w] = "delete"
             /\ Exposed(w)
             /\ ~ErrorStep(w)
          \/ /\ pc[w] = "get" /\ pc'[w] = "for"
             /\ ErrorStep(w)]_vars

\* a thread that has missed, slept and is about to get again, its marker
\* still not exposed, no attempt left to any thread, while another thread
\* waits for the client it holds
C14_Witness ==
    \E w \in Threads :
        /\ pc[w] = "get"
        /\ Last(ops[w]) = "get_absent"
        /\ ~Exposed(w)
        /\ budget = 0
        /\ HeldBy(w, src_pool[w]) # {} /\ HeldBy(w, dst_pool[w]) # {}
        /\ \E v \in Threads \ {w} : Blocked(v) /\ WaitsFor(v) = src_pool[w]

\* ---------------------------------------------------------------- liveness
\* The program when no operation raises: the steps of the error-free path.
\* Every thread that can take a step eventually takes one, replication of a
\* written marker eventually happens (and a replicated marker stays on the
\* destination), and collect goes on.
Step(w) ==
    \/ for_next(w) \/ get_src(w) \/ get_dst(w) \/ set(w)
    \/ get_value(w) \/ get_absent(w) \/ sleep(w) \/ delete(w)
    \/ release_src(w) \/ release_dst(w) \/ append(w)

NextLive ==
    \/ collect
    \/ \E b \in DOMAIN srcStore : xdcr_replicate(b)
    \/ \E w \in Threads : for_next(w)
    \/ \E w \in Threads : get_src(w)
    \/ \E w \in Threads : get_dst(w)
    \/ \E w \in Threads : set(w)
    \/ \E w \in Threads : get_value(w)
    \/ \E w \in Threads : get_absent(w)
    \/ \E w \in Threads : sleep(w)
    \/ \E w \in Threads : delete(w)
    \/ \E w \in Threads : release_src(w)
    \/ \E w \in Threads : release_dst(w)
    \/ \E w \in Threads : append(w)

Fairness ==
    /\ WF_vars(collect)
    /\ \A b \in 1..NumBuckets : WF_vars(xdcr_replicate(b))
    /\ \A w \in 1..NumWorkers : WF_vars(Step(w))

SpecLive == Init /\ [][NextLive]_vars /\ Fairness

LeakOf(w, p) ==
    IF pc[w] = "get_dst" /\ p = src_pool[w] THEN 1
    ELSE IF pc[w] \in {"set", "get", "delete"} /\ p \in {src_pool[w], dst_pool[w]}
         THEN 1
    ELSE 0

\* C16: with pools of fixed capacity, every measurement that fails after
\* acquiring a client takes one client out of the pool for good (the source
\* client when the destination acquire fails, both when set, get or delete
\* fails); once as many failures as the capacity have hit a pool, no client
\* of it is idle or held, every acquire on it blocks, and no measurement on
\* that bucket gets past the acquire again (one that had released its source
\* client before the last failure may still be releasing the other).
C16_PoolExhaustion ==
    /\ [](\A p \in DOMAIN idle :
            /\ Cardinality(Leaked(p)) = trail.lost[p]
            /\ Cardinality(idle[p]) + Cardinality(Holders(p)) = cap - trail.lost[p]
            /\ trail.lost[p] = cap =>
                /\ get_client(p) = {}
                /\ Holders(p) = {}
                /\ \A w \in Threads :
                     (InFlight(w) /\ bucket[w] = BucketOf(p)) =>
                        \/ pc[w] = "get_src"
                        \/ pc[w] = "get_dst" /\ p = dst_pool[w] /\ Blocked(w)
                        \/ pc[w] = "rel_dst" /\ p = src_pool[w])
    /\ [][\A w \in Threads : ErrorStep(w) =>
            /\ idle' = idle
            /\ \A p \in DOMAIN idle :
                 /\ trail'.lost[p] = trail.lost[p] + LeakOf(w, p)
                 /\ Leaked(p)' = Leaked(p) \cup HeldBy(w, p)]_vars

\* a pool of more than one client has lost all of them to failed
\* measurements, some of which had acquired the destination client too, and
\* a thread waits in its get_client()
C16_Witness ==
    \E p \in DOMAIN idle :
        /\ cap > 1
        /\ trail.lost[p] = cap
        /\ \E q \in DOMAIN idle : q[1] = "dst" /\ trail.lost[q] > 0
        /\ \E w \in Threads : Blocked(w) /\ WaitsFor(w) = p

\* ------------------------------------------------------------ orphan markers
\* C17: a store error after the source set and before the source delete (a
\* failing destination get or a failing delete) ends the measurement without
\* a sample and leaves its marker in the source store; the marker stays
\* there whatever any thread does later, and no sample ever carries it.
C17_OrphanMarker ==
    /\ [](\A o \in trail.orphans :
            /\ o.key \in srcStore[o.bucket]
            /\ \A s \in sink : s.lags.key # o.key
            /\ \A w \in Threads :
                 /\ key[w] # o.key
                 /\ pc[w] = "append" => lags[w].key # o.key)
    /\ [][\A w \in Threads :
            (ErrorStep(w) /\ pc[w] \in {"get", "delete"}) =>
                /\ pc'[w] = "for"
                /\ ~Returned(w)'
                /\ sink' = sink
                /\ srcStore' = srcStore
                /\ [key |-> key[w], bucket |-> bucket[w]] \in trail'.orphans]_vars

\* two markers were orphaned, and a later measurement of the same bucket has
\* had its sample appended while the older marker is still in the source store
C17_Witness ==
    /\ Cardinality(trail.orphans) >= 2
    /\ \E o \in trail.orphans : \E s \in sink :
         /\ s.bucket = o.bucket
         /\ s.lags.key > o.key
         /\ o.key \in srcStore[o.bucket]

\* -------------------------------------------------------------- sink failure
\* C18: when the append raises after a successful measurement the thread
\* catches it and goes on with its loop, the sample is never appended (then
\* or later), and the pools are as balanced as before: both clients had been
\* released before the append, so the failure leaks nothing.
C18_SinkFailure ==
    /\ [](/\ \A d \in trail.dropped :
               /\ \A s \in sink : s.lags # d
               /\ \A w \in Threads : pc[w] = "append" => lags[w] # d
          /\ \A w \in Threads : pc[w] = "append" =>
               /\ src_client[w] = None /\ dst_client[w] = None
               /\ \A p \in DOMAIN idle : HeldBy(w, p) = {}
          /\ (\A w \in Threads : stats[w].failed = 0) =>
               \A p \in DOMAIN idle : Leaked(p) = {})
    /\ [][\A w \in Threads :
            (ErrorStep(w) /\ pc[w] = "append") =>
                /\ pc'[w] = "for"
                /\ stats'[w].append_failed = stats[w].append_failed + 1
                /\ sink' = sink
                /\ idle' = idle
                /\ trail'.lost = trail.lost
                /\ \A p \in DOMAIN idle : Leaked(p)' = Leaked(p)
                /\ lags[w] \in trail'.dropped]_vars

\* a thread whose append had failed has measured again and had the next
\* sample appended; nothing else failed and every client is back in its pool
C18_Witness ==
    \E d \in trail.dropped : \E s \in sink :
        /\ s.lags.by = d.by
        /\ s.lags.key > d.key
        /\ \A w \in Threads : stats[w].failed = 0
        /\ \A p \in DOMAIN idle : idle[p] = 1..cap

\* ----------------------------------------------------------- deadlock freedom
\* every started thread is inside a get_client() that cannot return
AllBlocked == \A w \in Threads : Blocked(w)

\* thread w is blocked in the get_client() of the given statement
BlockedAt(w, at) == IF pc[w] = at THEN Blocked(w) ELSE FALSE

MeasureStep(w) == InFlight(w) /\ pc'[w] # pc[w]

\* C20: a measurement on bucket b works on b's source pool and b's
\* destination pool only, sets and deletes only its own marker and only in
\* the source store of b, and only reads the destination; every step of it
\* leaves the other pools, every other key of the source store, the
\* destination store, the sink and the list of pools as they were.
C20_Frame ==
    [][\A w \in Threads : MeasureStep(w) =>
          /\ src_pool[w] = pools[it[w]].src_pool
          /\ dst_pool[w] = pools[it[w]].dst_pool
          /\ bucket[w] = pools[it[w]].bucket
          /\ BucketOf(src_pool[w]) = bucket[w]
          /\ BucketOf(dst_pool[w]) = bucket[w]
          /\ \A p \in DOMAIN idle :
                p \notin {src_pool[w], dst_pool[w]} =>
                    idle'[p] = idle[p] /\ CheckedOut(p)' = CheckedOut(p)
          /\ \A b \in DOMAIN srcStore :
                /\ srcStore'[b] \ {key[w]} = srcStore[b] \ {key[w]}
                /\ b # bucket[w] => srcStore'[b] = srcStore[b]
          /\ dstStore' = dstStore
          /\ sink' = sink
          /\ pools' = pools /\ cap' = cap]_vars

\* a measurement of the first bucket has returned while an older marker is
\* still in that bucket's source store and another thread, its marker
\* written, holds clients of another bucket's pools
C20_Witness ==
    \E w, v \in Threads :
        /\ pc[w] = "append" /\ lags[w].measured = 1
        /\ srcStore[1] # {}
        /\ Polling(v) /\ bucket[v] # 1
        /\ key[v] \in srcStore[bucket[v]]
        /\ HeldBy(v, src_pool[v]) # {} /\ HeldBy(v, dst_pool[v]) # {}

====
